---- MODULE Spec2Model ----
(***************************************************************************)
(* smartmon-exporter: the two collection programs of the repository.       *)
(*                                                                         *)
(*   "collector"  package smart: Collector.Collect and the helpers it      *)
(*                calls (Version, JSONCapable, scanDevices,                *)
(*                scanDevicesJSON, Device.active/info/infoJSON,            *)
(*                CollectInfoMetrics, CollectVendorAttributes).            *)
(*   "main"       the stand-alone program of src/main.go with the          *)
(*                helpers smartMon* and runSmartCmd.                       *)
(*                                                                         *)
(* The external smartctl binary is the environment: every command the      *)
(* programs issue gets an output (or a failure) drawn from a bounded set.  *)
(* Text is modelled as a sequence of lines, a line as a sequence of        *)
(* whitespace-separated tokens.                                            *)
(***************************************************************************)
EXTENDS Integers, Sequences, FiniteSets, TLC

VARIABLES
    prog,       \* which entry point runs: "collector", "main", "scan", "attr"
    pc,         \* position of the running program
    isRoot,     \* os.Geteuid() = rootuid
    verOut,     \* what `smartctl -V` answers during this pass
    devices,    \* the enumerated devices, in processing order
    idx,        \* index in devices of the device being processed
    ch,         \* the measurements emitted so far (channel / stdout)
    cmds,       \* the smartctl commands issued so far
    logs,       \* the log records written so far
    raw,        \* the tool output handed to a parser
    parsed      \* what the parser returned for raw

vars == <<prog, pc, isRoot, verOut, devices, idx, ch, cmds, logs, raw, parsed>>

(***************************************************************************)
(* Bounds of the model.                                                    *)
(***************************************************************************)
MaxScanLines == 2      \* lines of a scan output handed to the enumerators
MaxJSONDevices == 2    \* elements of the "devices" array of a JSON scan
MaxAttrLines == 2      \* lines of an attribute table
MaxPassDevices == 2    \* devices listed by the scan of a whole pass
MaxInfoLines == 2      \* lines of an info output handed to the info parsers
MaxVerMajor == 7       \* largest major component of a version string
MaxVerMinor == 10      \* largest minor component of a version string

(***************************************************************************)
(* Generic helpers.                                                        *)
(***************************************************************************)
SeqsUpTo(S, n) == UNION {[1..k -> S] : k \in 0..n}

RECURSIVE JoinSp(_)
JoinSp(toks) ==
    IF toks = <<>> THEN ""
    ELSE IF Len(toks) = 1 THEN toks[1]
    ELSE toks[1] \o " " \o JoinSp(Tail(toks))

Max(S) == CHOOSE x \in S : \A y \in S : y <= x

Range(s) == {s[i] : i \in DOMAIN s}

(***************************************************************************)
(* Strings.  Char(s, i) is the i-th character of s as a string.            *)
(***************************************************************************)
Char(s, i) == SubSeq(s, i, i)

\* strings.HasPrefix
HasPrefix(x, prefix) ==
    Len(x) >= Len(prefix) /\ SubSeq(x, 1, Len(prefix)) = prefix

\* the index of the first occurrence of the character c in s at or after
\* position i, 0 if none
RECURSIVE IndexFrom(_, _, _)
IndexFrom(s, c, i) ==
    IF i > Len(s) THEN 0
    ELSE IF Char(s, i) = c THEN i
    ELSE IndexFrom(s, c, i + 1)

IndexOf(s, c) == IndexFrom(s, c, 1)

\* strings.Split(s, c) for a one-character separator
RECURSIVE Split(_, _)
Split(s, c) ==
    LET i == IndexOf(s, c)
    IN IF i = 0 THEN <<s>>
       ELSE <<SubSeq(s, 1, i - 1)>> \o Split(SubSeq(s, i + 1, Len(s)), c)

\* strings.TrimSpace
RECURSIVE TrimSpace(_)
TrimSpace(x) ==
    IF x = "" THEN x
    ELSE IF Char(x, 1) = " " THEN TrimSpace(Tail(x))
    ELSE IF Char(x, Len(x)) = " " THEN TrimSpace(SubSeq(x, 1, Len(x) - 1))
    ELSE x

UpperChars == "ABCDEFGHIJKLMNOPQRSTUVWXYZ"
LowerChars == "abcdefghijklmnopqrstuvwxyz"

LowerTable ==
    [c \in {Char(UpperChars, i) : i \in 1..Len(UpperChars)} |->
        Char(LowerChars, IndexOf(UpperChars, c))]

LowerChar(c) == IF c \in DOMAIN LowerTable THEN LowerTable[c] ELSE c

\* strings.ToLower
RECURSIVE ToLower(_)
ToLower(x) == IF x = "" THEN x ELSE LowerChar(Char(x, 1)) \o ToLower(Tail(x))

\* strings.ReplaceAll(x, c, "_") for each c of chars
RECURSIVE ReplaceChars(_, _)
ReplaceChars(x, chars) ==
    IF x = "" THEN x
    ELSE (IF Char(x, 1) \in chars THEN "_" ELSE Char(x, 1))
         \o ReplaceChars(Tail(x), chars)

DigitChars == "0123456789"
DigitTable ==
    [c \in {Char(DigitChars, i) : i \in 1..Len(DigitChars)} |->
        IndexOf(DigitChars, c) - 1]
IsDigits(x) == x # "" /\ \A i \in 1..Len(x) : Char(x, i) \in DOMAIN DigitTable

\* the value of a string of decimal digits
RECURSIVE DigitsVal(_)
DigitsVal(x) ==
    IF x = "" THEN 0
    ELSE 10 * DigitsVal(SubSeq(x, 1, Len(x) - 1)) + DigitTable[Char(x, Len(x))]

(***************************************************************************)
(* Tokens of a scan output and the character classes the code tests.       *)
(***************************************************************************)
PathToks == {"/dev/sda", "/dev/sdb", "/dev/nvme0", "/dev/bus/0", "/foo"}
WordToks == {"sat", "nvme", "scsi", "ATA", "NVMe", "SCSI", "device",
             "smartctl", "open", "failed"}
TrimComma ==
    [t \in {"/dev/sda,", "/dev/sdb,", "/dev/nvme0,", "/dev/bus/0,", "ATA,"} |->
        CASE t = "/dev/sda," -> "/dev/sda"
          [] t = "/dev/sdb," -> "/dev/sdb"
          [] t = "/dev/nvme0," -> "/dev/nvme0"
          [] t = "/dev/bus/0," -> "/dev/bus/0"
          [] t = "ATA," -> "ATA"]
CommaToks == DOMAIN TrimComma

\* strings.HasPrefix(t, "/")
StartsWithSlash(t) == t \in PathToks \cup {"/dev/sda,", "/dev/sdb,", "/dev/nvme0,", "/dev/bus/0,"}
\* strings.HasPrefix(t, "/dev")
StartsWithDev(t) == StartsWithSlash(t) /\ t # "/foo"
\* [\w]+ over a whole token
IsWordTok(t) == t \in WordToks

Device(n, t, i, p) == [Name |-> n, Type |-> t, InfoName |-> i, Protocol |-> p]

Ok(v) == [err |-> "", val |-> v]
Err(e) == [err |-> e, val |-> <<>>]
Panic == [err |-> "panic", val |-> <<>>]

(***************************************************************************)
(* smartctlDeviceRegex = ^(/.+) -d ([\w]+) # (.+), (.+)                    *)
(* On a line of single-spaced tokens: the first token starts with "/",     *)
(* token i is "-d", token i+1 is a word, token i+2 is "#", token j >= i+3  *)
(* ends with a comma and at least one token follows it.  The groups are    *)
(* greedy: the regexp engine prefers the longest group 1, then the longest *)
(* group 3.                                                                *)
(***************************************************************************)
RegexSplits(line) ==
    {<<i, j>> \in (1..Len(line)) \X (1..Len(line)) :
        /\ i >= 2 /\ j >= i + 3 /\ j < Len(line)
        /\ StartsWithSlash(line[1])
        /\ line[i] = "-d"
        /\ IsWordTok(line[i + 1])
        /\ line[i + 2] = "#"
        /\ line[j] \in CommaToks}

\* FindSubmatch: <<>> when the line does not match, else the four groups
FindSubmatch(line) ==
    IF RegexSplits(line) = {} THEN <<>>
    ELSE LET i == Max({s[1] : s \in RegexSplits(line)})
             j == Max({s[2] : s \in {t \in RegexSplits(line) : t[1] = i}})
         IN <<JoinSp(SubSeq(line, 1, i - 1)),
              line[i + 1],
              JoinSp(SubSeq(line, i + 3, j - 1) \o <<TrimComma[line[j]]>>),
              JoinSp(SubSeq(line, j + 1, Len(line)))>>

(***************************************************************************)
(* The command runner.  A run is [fail, out]: smartCtl returns (nil, err)  *)
(* when the command fails; runSmartCmd panics.                             *)
(***************************************************************************)
EmptyMap == [n \in {} |-> ""]

JNull == [t |-> "null", s |-> "", a |-> <<>>, o |-> EmptyMap]

TextRun(lines) == [fail |-> FALSE, out |-> lines, doc |-> JNull]
DocRun(d) == [fail |-> FALSE, out |-> <<>>, doc |-> d]
FailRun == [fail |-> TRUE, out |-> <<>>, doc |-> JNull]

IsBlank(line) == line = <<>>

(***************************************************************************)
(* scanDevices: legacy enumeration of package smart.                       *)
(***************************************************************************)
RECURSIVE scanLoop(_, _)
scanLoop(lines, acc) ==
    IF lines = <<>> THEN Ok(acc)
    ELSE IF IsBlank(Head(lines)) THEN scanLoop(Tail(lines), acc)
    ELSE LET matches == FindSubmatch(Head(lines))
         IN IF Len(matches) < 4 THEN Err("Unable to parse device line")
            ELSE scanLoop(Tail(lines),
                          Append(acc, Device(matches[1], matches[2],
                                             matches[3], matches[4])))

scanDevicesSkipBadLine(run) ==
    IF run.fail THEN Err("Failed to execute command")
    ELSE scanLoop(SelectSeq(run.out,
                            LAMBDA l : IsBlank(l) \/ FindSubmatch(l) # <<>>), <<>>)

scanDevicesSwapFields(run) ==
    IF run.fail THEN Err("Failed to execute command")
    ELSE LET r == scanLoop(run.out, <<>>)
         IN IF r.err # "" THEN r
            ELSE Ok([k \in DOMAIN r.val |->
                        Device(r.val[k].Name, r.val[k].Type,
                               r.val[k].Protocol, r.val[k].InfoName)])

scanDevices(run) ==
    IF run.fail THEN Err("Failed to execute command")
    ELSE scanLoop(run.out, <<>>)

(***************************************************************************)
(* smartMonDeviceList: enumeration of the stand-alone program.  The result *)
(* is a map from device name to type; fields[2] of a line with fewer than  *)
(* three fields is an index out of range.                                  *)
(***************************************************************************)
RECURSIVE deviceListLoop(_, _)
deviceListLoop(lines, acc) ==
    IF lines = <<>> THEN Ok(acc)
    ELSE LET fields == Head(lines)
         IN IF Len(fields) > 0 /\ StartsWithDev(fields[1])
            THEN IF Len(fields) < 3 THEN Panic
                 ELSE deviceListLoop(Tail(lines),
                        [n \in DOMAIN acc \cup {fields[1]} |->
                            IF n = fields[1] THEN fields[3] ELSE acc[n]])
            ELSE deviceListLoop(Tail(lines), acc)

smartMonDeviceList(run) ==
    IF run.fail THEN Panic
    ELSE deviceListLoop(run.out, EmptyMap)

(***************************************************************************)
(* JSON documents.  A value is [t, v] with t one of "invalid" (not JSON),  *)
(* "null", "str" and "num" (s the text), "arr" (a the sequence of values)  *)
(* and "obj" (o the function from keys to values).                         *)
(***************************************************************************)
JInvalid == [t |-> "invalid", s |-> "", a |-> <<>>, o |-> EmptyMap]
JStr(x) == [t |-> "str", s |-> x, a |-> <<>>, o |-> EmptyMap]
JNum(x) == [t |-> "num", s |-> x, a |-> <<>>, o |-> EmptyMap]
JArr(x) == [t |-> "arr", s |-> "", a |-> x, o |-> EmptyMap]
JObj(f) == [t |-> "obj", s |-> "", a |-> <<>>, o |-> f]

\* parseJSON: json.Unmarshal into map[string]*json.RawMessage.  A JSON null
\* leaves the map empty; a null member is stored as a nil pointer.
parseJSON(doc) ==
    CASE doc.t = "obj" -> Ok(doc.o)
      [] doc.t = "null" -> Ok(EmptyMap)
      [] OTHER -> Err("json")

\* a string field of Device read from one member of a JSON object
StrField(obj, key) ==
    IF key \in DOMAIN obj /\ obj[key].t = "str" THEN obj[key].s ELSE ""

\* the member unmarshals into a string field (absent and null leave it alone)
StrFieldOk(obj, key) ==
    key \notin DOMAIN obj \/ obj[key].t \in {"str", "null"}

\* json.Unmarshal of one array element into Device: field names match keys
\* case-insensitively, so "info_name" does not reach InfoName.
DeviceFieldKeys == {"name", "type", "protocol"}

ElemOk(e) ==
    \/ e.t = "null"
    \/ e.t = "obj" /\ \A k \in DeviceFieldKeys : StrFieldOk(e.o, k)

ElemDevice(e) ==
    IF e.t = "null" THEN Device("", "", "", "")
    ELSE Device(StrField(e.o, "name"), StrField(e.o, "type"), "",
                StrField(e.o, "protocol"))

\* json.Unmarshal(*unparsedDevices, &devices)
UnmarshalDevices(val) ==
    IF val.t = "arr" /\ \A k \in DOMAIN val.a : ElemOk(val.a[k])
    THEN Ok([k \in DOMAIN val.a |-> ElemDevice(val.a[k])])
    ELSE Err("json")

scanDevicesJSONIgnoreMissingKey(run) ==
    IF run.fail THEN Err("Failed to execute command")
    ELSE LET mappedJSON == parseJSON(run.doc)
         IN IF mappedJSON.err # "" THEN Ok(<<>>)
            ELSE IF "devices" \notin DOMAIN mappedJSON.val THEN Ok(<<>>)
            ELSE IF mappedJSON.val["devices"].t = "null" THEN Panic
            ELSE UnmarshalDevices(mappedJSON.val["devices"])

(***************************************************************************)
(* scanDevicesJSON: structured enumeration of package smart.               *)
(***************************************************************************)
scanDevicesJSON(run) ==
    IF run.fail THEN Err("Failed to execute command")
    ELSE LET mappedJSON == parseJSON(run.doc)
         IN IF mappedJSON.err # "" THEN mappedJSON
            ELSE IF "devices" \notin DOMAIN mappedJSON.val
                 THEN Err("unable to find 'devices' entry in JSON output")
            ELSE IF mappedJSON.val["devices"].t = "null" THEN Panic
            ELSE UnmarshalDevices(mappedJSON.val["devices"])

(***************************************************************************)
(* Inputs of the enumerators.                                              *)
(***************************************************************************)
LineSda == <<"/dev/sda", "-d", "sat", "#", "/dev/sda,", "ATA", "device">>
LineNvme == <<"/dev/nvme0", "-d", "nvme", "#", "/dev/nvme0,", "NVMe", "device">>
LineSdb == <<"/dev/sdb", "-d", "scsi", "#", "/dev/sdb,", "SCSI", "device">>
LineFoo == <<"/foo", "-d", "sat", "#", "ATA,", "device">>
\* two "-d" and two commas: the greedy groups take the last of each
LineTwice == <<"/dev/sda", "-d", "sat", "-d", "scsi", "#", "/dev/sda,", "ATA,", "device">>
LineBlank == <<>>
LineGarbage == <<"smartctl", "open", "failed">>
LineNoHash == <<"/dev/sdb", "-d", "sat">>
LinePathOnly == <<"/dev/sdb">>
LineNoProtocol == <<"/dev/sda", "-d", "sat", "#", "/dev/sda,">>
LineBadType == <<"/dev/bus/0", "-d", "/dev/bus/0,", "#", "/dev/bus/0,", "SCSI", "device">>

GoodLines == {LineSda, LineNvme, LineSdb, LineFoo, LineTwice}
BadLines == {LineGarbage, LineNoHash, LinePathOnly, LineNoProtocol, LineBadType}
ScanLinePool == GoodLines \cup BadLines \cup {LineBlank}

ScanTexts == SeqsUpTo(ScanLinePool, MaxScanLines)

JDev(n, t, p) ==
    JObj([k \in {"name", "info_name", "type", "protocol"} |->
            CASE k = "name" -> JStr(n)
              [] k = "info_name" -> JStr(n)
              [] k = "type" -> JStr(t)
              [] k = "protocol" -> JStr(p)])

JElemPool == {JDev("/dev/sda", "sat", "ATA"), JDev("/dev/nvme0", "nvme", "NVMe"),
              JObj([k \in {"name"} |-> JNum("1")]), JNum("1"), JNull}

JMeta == JObj([k \in {"exit_status"} |-> JNum("0")])

ScanDocs ==
    {JInvalid, JNull, JArr(<<>>), JObj(EmptyMap),
     JObj([k \in {"smartctl"} |-> JMeta])}
    \cup {JObj([k \in {"smartctl", "devices"} |->
                  IF k = "smartctl" THEN JMeta ELSE d]) :
            d \in {JNull, JStr("none")}
                  \cup {JArr(a) : a \in SeqsUpTo(JElemPool, MaxJSONDevices)}}

NotRun == [err |-> "not-run", val |-> <<>>]

ScanInputs ==
    {[fn |-> "scanDevices", run |-> TextRun(t)] : t \in ScanTexts}
    \cup {[fn |-> "smartMonDeviceList", run |-> TextRun(t)] : t \in ScanTexts}
    \cup {[fn |-> "scanDevicesJSON", run |-> DocRun(d)] : d \in ScanDocs}
    \cup {[fn |-> f, run |-> FailRun] :
            f \in {"scanDevices", "smartMonDeviceList", "scanDevicesJSON"}}

(***************************************************************************)
(* SpecScan: one enumerator applied to one scan output.                    *)
(***************************************************************************)
PassIdle ==
    /\ isRoot = TRUE
    /\ verOut = <<>>
    /\ devices = <<>>
    /\ idx = 0
    /\ ch = <<>>
    /\ cmds = <<>>
    /\ logs = <<>>

passVars == <<isRoot, verOut, devices, idx, ch, cmds, logs>>

InitScan ==
    /\ prog = "scan"
    /\ pc = "input"
    /\ raw \in ScanInputs
    /\ parsed = NotRun
    /\ PassIdle

ApplyScanDevices ==
    /\ prog = "scan" /\ pc = "input" /\ raw.fn = "scanDevices"
    /\ parsed' = scanDevices(raw.run)
    /\ pc' = "parsed"
    /\ UNCHANGED <<prog, raw, passVars>>

ApplyScanDevicesJSON ==
    /\ prog = "scan" /\ pc = "input" /\ raw.fn = "scanDevicesJSON"
    /\ parsed' = scanDevicesJSON(raw.run)
    /\ pc' = "parsed"
    /\ UNCHANGED <<prog, raw, passVars>>

ApplySmartMonDeviceList ==
    /\ prog = "scan" /\ pc = "input" /\ raw.fn = "smartMonDeviceList"
    /\ parsed' = smartMonDeviceList(raw.run)
    /\ pc' = "parsed"
    /\ UNCHANGED <<prog, raw, passVars>>

NextScan == ApplyScanDevices \/ ApplyScanDevicesJSON \/ ApplySmartMonDeviceList

SpecScan == InitScan /\ [][NextScan]_vars

(***************************************************************************)
(* Measurements.  A measurement is [name, labels, value]; labels is a      *)
(* function from label names to strings.                                   *)
(***************************************************************************)
Metric(n, l, v) == [name |-> n, labels |-> l, value |-> v]

\* the {disk, type} labels of a device
DiskType(name, type) ==
    [k \in {"disk", "type"} |-> IF k = "disk" THEN name ELSE type]

\* labels with one more key set (a later assignment overrides)
Put(l, key, val) ==
    [k \in DOMAIN l \cup {key} |-> IF k = key THEN val ELSE l[k]]

(***************************************************************************)
(* Tokens of an attribute table.                                           *)
(***************************************************************************)
\* strconv.ParseFloat(t, 64) on the tokens of the model: a string of decimal
\* digits parses to its value; the other tokens of the model ("n/a", "-",
\* "36/40", "0x002f", "VALUE") are syntax errors
IsNum(t) == IsDigits(t)
NumVal(t) == DigitsVal(t)

\* t[1:] on the token that opens the output
DropFirstChar(t) == Tail(t)

\* output[n:] for n = 1 on a text of newline-terminated lines: the empty
\* output has no byte to drop (slice bounds out of range)
DropFirstByte(lines) ==
    IF Head(lines) = <<>> THEN Tail(lines)
    ELSE IF DropFirstChar(Head(lines)[1]) = ""
         THEN <<Tail(Head(lines))>> \o Tail(lines)
         ELSE <<<<DropFirstChar(Head(lines)[1])>> \o Tail(Head(lines))>> \o Tail(lines)

Emitted(e, ms) == [err |-> e, val |-> ms]

(***************************************************************************)
(* CollectSatVendorAttributes (package smart).  The measurements sent to   *)
(* the channel before a return stay sent.                                  *)
(***************************************************************************)
SatMetric(dev, fields, suffix, k) ==
    Metric("smartmon_" \o ToLower(fields[2]) \o suffix,
           Put(DiskType(dev.Name, dev.Type), "smart_id", fields[1]),
           NumVal(fields[k]))

RECURSIVE satLoop(_, _, _)
satLoop(lines, dev, acc) ==
    IF lines = <<>> THEN Emitted("", acc)
    ELSE LET fields == Head(lines)
         IN IF Len(fields) < 10 THEN satLoop(Tail(lines), dev, acc)
            ELSE IF ~IsNum(fields[4]) THEN Emitted("ParseFloat", acc)
            ELSE LET a1 == Append(acc, SatMetric(dev, fields, "_value", 4))
                 IN IF ~IsNum(fields[5]) THEN Emitted("ParseFloat", a1)
            ELSE LET a2 == Append(a1, SatMetric(dev, fields, "_worst", 5))
                 IN IF ~IsNum(fields[6]) THEN Emitted("ParseFloat", a2)
            ELSE LET a3 == Append(a2, SatMetric(dev, fields, "_threshold", 6))
                 IN IF ~IsNum(fields[10]) THEN Emitted("ParseFloat", a3)
            ELSE satLoop(Tail(lines), dev,
                         Append(a3, SatMetric(dev, fields, "_raw_value", 10)))

CollectSatVendorAttributes(dev, run) ==
    IF run.fail \/ run.out = <<>> THEN Emitted("panic", <<>>)
    ELSE satLoop(DropFirstByte(run.out), dev, <<>>)

(***************************************************************************)
(* The stand-alone program's metric constructors and attribute parser.     *)
(* NewHelpMetric sets Value to "1" whatever value it is given.             *)
(***************************************************************************)
NewHelpMetric(name, labels, value, help) == Metric(name, labels, 1)
NewMetric(name, labels, value) == NewHelpMetric(name, labels, value, "SMART metric")
NewInfoMetric(name, msg) ==
    NewHelpMetric(name, [k \in {"info"} |-> msg], 1, "Status information")

MainSatMetric(device, devType, fields, suffix, k) ==
    NewMetric("smartmon_" \o ToLower(fields[2]) \o suffix,
              Put(DiskType(device, devType), "smart_id", fields[1]),
              fields[k])

RECURSIVE mainSatLoop(_, _, _, _)
mainSatLoop(lines, device, devType, acc) ==
    IF lines = <<>> THEN Emitted("", acc)
    ELSE LET fields == Head(lines)
         IN IF Len(fields) < 10 THEN mainSatLoop(Tail(lines), device, devType, acc)
            ELSE mainSatLoop(Tail(lines), device, devType,
                    acc \o <<MainSatMetric(device, devType, fields, "_value", 4),
                             MainSatMetric(device, devType, fields, "_worst", 5),
                             MainSatMetric(device, devType, fields, "_threshold", 6),
                             MainSatMetric(device, devType, fields, "_raw_value", 10)>>)

smartMonDeviceSatAttributes(device, devType, run) ==
    IF run.fail \/ run.out = <<>> THEN Emitted("panic", <<>>)
    ELSE mainSatLoop(DropFirstByte(run.out), device, devType, <<>>)

(***************************************************************************)
(* Inputs of the attribute parsers.                                        *)
(***************************************************************************)
RowTitle == <<"smartctl", "6.6">>
RowHeader == <<"ID#", "ATTRIBUTE_NAME", "FLAG", "VALUE", "WORST", "THRESH",
               "TYPE", "UPDATED", "WHEN_FAILED", "RAW_VALUE">>
RowRead == <<"1", "Raw_Read_Error_Rate", "0x002f", "100", "100", "051",
             "Pre-fail", "Always", "-", "0">>
RowTemp == <<"194", "Temperature_Celsius", "0x0022", "036", "043", "000",
             "Old_age", "Always", "-", "36", "(Min/Max", "20/40)">>
RowBadWorst == <<"194", "Temperature_Celsius", "0x0022", "036", "n/a", "000",
                 "Old_age", "Always", "-", "36">>
RowBadRaw == <<"194", "Temperature_Celsius", "0x0022", "036", "043", "000",
               "Old_age", "Always", "-", "36/40">>
RowNine == <<"194", "Temperature_Celsius", "0x0022", "036", "043", "000",
             "Old_age", "Always", "-">>

AttrLinePool == {<<>>, RowTitle, RowHeader, RowRead, RowTemp, RowBadWorst,
                 RowBadRaw, RowNine}

\* the tool's output opens with its banner line; the rows follow
AttrTexts == SeqsUpTo(AttrLinePool, MaxAttrLines)
             \cup {<<RowTitle>> \o t : t \in SeqsUpTo(AttrLinePool, MaxAttrLines)}

AttrDev == Device("/dev/sda", "sat", "/dev/sda", "ATA device")

AttrInputs ==
    {[fn |-> f, run |-> TextRun(t)] :
        f \in {"CollectSatVendorAttributes", "smartMonDeviceSatAttributes"},
        t \in AttrTexts}
    \cup {[fn |-> f, run |-> FailRun] :
            f \in {"CollectSatVendorAttributes", "smartMonDeviceSatAttributes"}}

(***************************************************************************)
(* SpecAttr: one attribute parser applied to one attribute table.          *)
(***************************************************************************)
InitAttr ==
    /\ prog = "attr"
    /\ pc = "input"
    /\ raw \in AttrInputs
    /\ parsed = NotRun
    /\ PassIdle

ApplyCollectSatVendorAttributes ==
    /\ prog = "attr" /\ pc = "input" /\ raw.fn = "CollectSatVendorAttributes"
    /\ parsed' = CollectSatVendorAttributes(AttrDev, raw.run)
    /\ pc' = "parsed"
    /\ UNCHANGED <<prog, raw, passVars>>

ApplySmartMonDeviceSatAttributes ==
    /\ prog = "attr" /\ pc = "input" /\ raw.fn = "smartMonDeviceSatAttributes"
    /\ parsed' = smartMonDeviceSatAttributes(AttrDev.Name, AttrDev.Type, raw.run)
    /\ pc' = "parsed"
    /\ UNCHANGED <<prog, raw, passVars>>

NextAttr == ApplyCollectSatVendorAttributes \/ ApplySmartMonDeviceSatAttributes

SpecAttr == InitAttr /\ [][NextAttr]_vars

(***************************************************************************)
(* The version query.  Version(): the second whitespace token of the first *)
(* line of `smartctl -V`.  firstLine panics on an empty output, the index  *)
(* panics on a first line of fewer than two tokens.                        *)
(***************************************************************************)
StrOk(v) == [err |-> "", val |-> v]
StrErr(e) == [err |-> e, val |-> ""]

Version(run) ==
    IF run.fail THEN StrErr("Failed to execute command")
    ELSE IF run.out = <<>> THEN StrErr("panic")
    ELSE IF Len(Head(run.out)) < 2 THEN StrErr("panic")
    ELSE StrOk(Head(run.out)[2])

\* smartMonVersion of the stand-alone program: runSmartCmd panics on failure
smartMonVersion(run) ==
    IF run.fail THEN StrErr("panic") ELSE Version(run)

\* semver.Parse: exactly <major>.<minor>.<patch>, each a string of digits
\* (a pre-release or build suffix is outside the version strings of the model)
Parse(v) ==
    LET parts == Split(v, ".")
    IN IF Len(parts) = 3 /\ \A k \in 1..3 : IsDigits(parts[k])
       THEN Ok([k \in 1..3 |-> DigitsVal(parts[k])])
       ELSE Err("semver")

\* semver.ParseTolerant: missing minor and patch components become 0
ParseTolerant(v) ==
    LET parts == Split(v, ".")
    IN IF Len(parts) < 3 /\ \A k \in DOMAIN parts : IsDigits(parts[k])
       THEN Ok([k \in 1..3 |-> IF k <= Len(parts) THEN DigitsVal(parts[k]) ELSE 0])
       ELSE Parse(v)

\* semver.Version.LT
VersionLT(a, b) ==
    \/ a[1] < b[1]
    \/ a[1] = b[1] /\ a[2] < b[2]
    \/ a[1] = b[1] /\ a[2] = b[2] /\ a[3] < b[3]

smartMonMinVersionJSON == <<7, 0, 0>>

JSONCapable(run) ==
    LET foundVer == Version(run)
    IN IF foundVer.err # "" THEN FALSE
       ELSE LET installedVer == ParseTolerant(foundVer.val)
            IN IF installedVer.err # "" THEN FALSE
               ELSE ~VersionLT(installedVer.val, smartMonMinVersionJSON)

(***************************************************************************)
(* Info output: a sequence of lines, each a string.                        *)
(* smartctlInfoRegex = ^([^:]+): (.+)$ matches a line whose first colon is *)
(* not its first character, is followed by a space and then by at least    *)
(* one more character; group 1 is the text before the colon, group 2 the   *)
(* text after the space.                                                   *)
(***************************************************************************)
InfoMatches(line) ==
    LET i == IndexOf(line, ":")
    IN i > 1 /\ Len(line) >= i + 2 /\ Char(line, i + 1) = " "

InfoName(line) == SubSeq(line, 1, IndexOf(line, ":") - 1)
InfoVal(line) == SubSeq(line, IndexOf(line, ":") + 2, Len(line))

\* sanitizeLabelName: " ", "/", "-", "." become "_", then lower case
sanitizeLabelName(name) == ToLower(ReplaceChars(name, {" ", "/", "-", "."}))

DeviceInfo(av, en, he, at) ==
    [Available |-> av, Enabled |-> en, Healthy |-> he, Attributes |-> at]

InfoOk(i) == [err |-> "", val |-> i]
InfoErr(e) == [err |-> e, val |-> DeviceInfo(FALSE, FALSE, FALSE, EmptyMap)]

(***************************************************************************)
(* Device.info: the legacy info parse of package smart.                    *)
(***************************************************************************)
RECURSIVE infoLoop(_, _)
infoLoop(lines, info) ==
    IF lines = <<>> THEN info
    ELSE LET line == Head(lines)
             name == InfoName(line)
             val == InfoVal(line)
             withAttr == [info EXCEPT !.Attributes =
                            Put(@, sanitizeLabelName(name), TrimSpace(val))]
         IN IF ~InfoMatches(line) THEN infoLoop(Tail(lines), info)
            ELSE IF HasPrefix(name, "SMART support is")
            THEN IF HasPrefix(val, "Available")
                 THEN infoLoop(Tail(lines), [withAttr EXCEPT !.Available = TRUE])
                 ELSE IF HasPrefix(val, "Enabled")
                 THEN infoLoop(Tail(lines), [withAttr EXCEPT !.Enabled = TRUE])
                 ELSE infoLoop(Tail(lines), withAttr)
            ELSE IF HasPrefix(name, "SMART Health Status")
            THEN IF HasPrefix(val, "OK")
                 THEN infoLoop(Tail(lines), [withAttr EXCEPT !.Healthy = TRUE,
                                    !.Available = TRUE, !.Enabled = TRUE])
                 ELSE infoLoop(Tail(lines), withAttr)
            ELSE IF HasPrefix(name, "SMART overall-health self-assessment test result")
            THEN IF HasPrefix(val, "PASSED")
                 THEN infoLoop(Tail(lines), [withAttr EXCEPT !.Healthy = TRUE,
                                    !.Available = TRUE, !.Enabled = TRUE])
                 ELSE infoLoop(Tail(lines), withAttr)
            ELSE infoLoop(Tail(lines), withAttr)

info(run) ==
    IF run.fail THEN InfoErr("Failed to execute command")
    ELSE InfoOk(infoLoop(run.out, DeviceInfo(FALSE, FALSE, FALSE, EmptyMap)))

(***************************************************************************)
(* Device.infoJSON: the structured info parse of package smart.            *)
(***************************************************************************)
JBool(b) == [t |-> "bool", s |-> IF b THEN "true" ELSE "false", a |-> <<>>, o |-> EmptyMap]

parsableFields == {"json_format_version", "smartctl", "device", "smart_status"}

\* sanitizeLabelValue(string(*val)): the raw text of the member without its
\* quotes and newlines
sanitizeLabelValue(val) == IF val.t \in {"str", "num", "bool"} THEN val.s ELSE val.t

\* attributes(): dereferences every member that is not a parsable field
attributes(mappedJSON) ==
    [key \in DOMAIN mappedJSON \ parsableFields |-> sanitizeLabelValue(mappedJSON[key])]

infoJSON(run) ==
    IF run.fail THEN InfoErr("Failed to execute command")
    ELSE LET mappedJSON == parseJSON(run.doc)
         IN IF mappedJSON.err # "" THEN InfoErr("json")
            ELSE IF \E key \in DOMAIN mappedJSON.val :
                        mappedJSON.val[key].t = "null"
                        /\ key \notin parsableFields \ {"smart_status"}
                 THEN InfoErr("panic")
            ELSE LET at == attributes(mappedJSON.val)
                 IN IF "smart_status" \notin DOMAIN mappedJSON.val
                    THEN InfoOk(DeviceInfo(FALSE, FALSE, FALSE, at))
                    ELSE LET statusDetail == parseJSON(mappedJSON.val["smart_status"])
                         IN IF statusDetail.err # "" THEN InfoErr("json")
                            ELSE IF "passed" \notin DOMAIN statusDetail.val
                            THEN InfoOk(DeviceInfo(FALSE, FALSE, FALSE, at))
                            ELSE IF statusDetail.val["passed"].t = "null"
                            THEN InfoErr("panic")
                            ELSE IF statusDetail.val["passed"].s = "true"
                                    /\ statusDetail.val["passed"].t = "bool"
                            THEN InfoOk(DeviceInfo(TRUE, TRUE, TRUE, at))
                            ELSE InfoOk(DeviceInfo(FALSE, FALSE, FALSE, at))

(***************************************************************************)
(* CollectInfoMetrics and the attribute collectors of package smart.  Each *)
(* returns [err, val, log]: the measurements sent to the channel and the   *)
(* log records written.                                                    *)
(***************************************************************************)
Outcome(e, ms, lg) == [err |-> e, val |-> ms, log |-> lg]

mergeMaps(map1, map2) ==
    [key \in DOMAIN map1 \cup DOMAIN map2 |->
        IF key \in DOMAIN map2 THEN map2[key] ELSE map1[key]]

boolToMetricInverted(val) == IF val THEN 0 ELSE 1

boolToMetric(val) == IF val THEN 1 ELSE 0

\* getDevInfo
getDevInfo(json, run) == IF json THEN infoJSON(run) ELSE info(run)

CollectInfoMetrics(device, res) ==
    IF res.err = "panic" THEN Outcome("panic", <<>>, <<>>)
    ELSE IF res.err # "" THEN Outcome("", <<>>, <<"error collecting device info">>)
    ELSE LET commonLabels == DiskType(device.Name, device.Type)
             infoLabels == mergeMaps(commonLabels, res.val.Attributes)
         IN Outcome("",
                <<Metric("smartmon_device_info", infoLabels, 1),
                  Metric("smartmon_device_smart_available", commonLabels,
                         boolToMetric(res.val.Available)),
                  Metric("smartmon_device_smart_enabled", commonLabels,
                         boolToMetric(res.val.Enabled)),
                  Metric("smartmon_device_smart_healthy", commonLabels,
                         boolToMetric(res.val.Healthy))>>,
                <<>>)

\* the number of bytes of a text of newline-terminated lines
RECURSIVE ByteLen(_)
ByteLen(lines) ==
    IF lines = <<>> THEN 0 ELSE Len(Head(lines)) + 1 + ByteLen(Tail(lines))

\* output[n:] on a text of at least n bytes
RECURSIVE DropBytes(_, _)
DropBytes(lines, n) ==
    IF n = 0 THEN lines
    ELSE IF n > Len(Head(lines))
         THEN DropBytes(Tail(lines), n - Len(Head(lines)) - 1)
         ELSE <<SubSeq(Head(lines), n + 1, Len(Head(lines)))>> \o Tail(lines)

RECURSIVE nvmeLabels(_, _)
nvmeLabels(lines, labels) ==
    IF lines = <<>> THEN labels
    ELSE LET fields == Split(Head(lines), ":")
         IN IF Len(fields) = 2
            THEN nvmeLabels(Tail(lines),
                            Put(labels, sanitizeLabelName(fields[1]),
                                TrimSpace(fields[2])))
            ELSE nvmeLabels(Tail(lines), labels)

CollectNvmeVendorAttributes(dev, run) ==
    IF run.fail
    THEN Outcome("Failed to execute command", <<>>,
                 <<"error collecting vendor specific attributes">>)
    ELSE IF ByteLen(run.out) < 4 THEN Outcome("panic", <<>>, <<>>)
    ELSE Outcome("",
            <<Metric("smartmon_attributes",
                     nvmeLabels(DropBytes(run.out, 4), DiskType(dev.Name, dev.Type)),
                     1)>>,
            <<>>)

(***************************************************************************)
(* What the tool answers during a pass.                                    *)
(***************************************************************************)
PassVersions == {"5.4", "6.6", "7.0", "not-a-number"}
PassVerRuns ==
    {FailRun, TextRun(<<>>), TextRun(<<<<"smartctl">>>>)}
    \cup {TextRun(<<<<"smartctl", v, "2017-11-05", "r4594">>>>) : v \in PassVersions}

PassScanTextRuns ==
    {FailRun} \cup {TextRun(t) :
        t \in SeqsUpTo({LineSda, LineNvme, LineSdb, LineGarbage}, MaxPassDevices)}

JWithDevices(d) ==
    JObj([k \in {"smartctl", "devices"} |-> IF k = "smartctl" THEN JMeta ELSE d])

PassScanDocRuns ==
    {FailRun, DocRun(JInvalid), DocRun(JObj([k \in {"smartctl"} |-> JMeta]))}
    \cup {DocRun(JWithDevices(JArr(a))) :
            a \in SeqsUpTo({JDev("/dev/sda", "sat", "ATA"),
                            JDev("/dev/nvme0", "nvme", "NVMe")}, MaxPassDevices)}

InfoHealthOK == <<"Device Model: ST1000", "SMART Health Status: OK">>
InfoPassed == <<"Device Model: ST1000",
                "SMART support is: Available - device has SMART capability.",
                "SMART support is: Enabled ",
                "SMART overall-health self-assessment test result: PASSED">>
InfoPlain == <<"smartctl 6.6", "", "Device Model: ST1000">>

PassInfoTextRuns == {FailRun} \cup {TextRun(t) : t \in {InfoHealthOK, InfoPlain}}

JInfo(passed) ==
    JObj([k \in {"model_name", "smart_status"} |->
            IF k = "model_name" THEN JStr("ST1000")
            ELSE JObj([j \in {"passed"} |-> JBool(passed)])])

PassInfoDocRuns ==
    {FailRun, DocRun(JInvalid), DocRun(JInfo(TRUE)),
     DocRun(JObj([k \in {"model_name"} |-> JStr("ST1000")]))}

PassSatRuns ==
    {FailRun, TextRun(<<>>), TextRun(<<RowTitle, RowRead, RowTemp>>),
     TextRun(<<RowTitle, RowRead, RowRead>>),
     TextRun(<<RowTitle, RowBadWorst, RowRead>>)}

PassNvmeRuns ==
    {FailRun, TextRun(<<"ok">>),
     TextRun(<<"smartctl 7.0", "Critical Warning: 0x00", "Temperature: 36 Celsius">>)}

(***************************************************************************)
(* The commands issued: [kind, dev, ok, json] with dev the index of the    *)
(* device in devices (0 for a command that names no device).               *)
(***************************************************************************)
Cmd(kind, dev, ok, json) == [kind |-> kind, dev |-> dev, ok |-> ok, json |-> json]

\* the position after the device at index i has been dealt with
AfterDevice(i, devs) == IF i + 1 > Len(devs) THEN "done" ELSE "active"

NoInput == [fn |-> "", run |-> FailRun]

(***************************************************************************)
(* Collector.Collect, step by step.                                        *)
(***************************************************************************)
\* version, _ := Version(); the version measurement
CollectVersion ==
    /\ prog = "collector" /\ pc = "start"
    /\ LET version == Version(verOut)
       IN /\ cmds' = Append(cmds, Cmd("version", 0, ~verOut.fail, FALSE))
          /\ IF version.err = "panic"
             THEN pc' = "panic" /\ ch' = ch
             ELSE /\ pc' = "scan"
                  /\ ch' = Append(ch, Metric("smartmon_version",
                                             [k \in {"vesion"} |-> version.val], 1))
    /\ UNCHANGED <<prog, isRoot, verOut, devices, idx, logs, raw, parsed>>

\* devices, err := getDeviceList()
CollectGetDeviceList ==
    /\ prog = "collector" /\ pc = "scan"
    /\ LET json == JSONCapable(verOut)
       IN \E run \in (IF json THEN PassScanDocRuns ELSE PassScanTextRuns) :
            LET r == IF json THEN scanDevicesJSON(run) ELSE scanDevices(run)
            IN /\ cmds' = cmds \o <<Cmd("version", 0, ~verOut.fail, FALSE),
                                    Cmd("scan", 0, ~run.fail, json)>>
               /\ raw' = [fn |-> IF json THEN "scanDevicesJSON" ELSE "scanDevices",
                          run |-> run]
               /\ parsed' = r
               /\ IF r.err = "panic"
                  THEN pc' = "panic" /\ UNCHANGED <<devices, idx, logs>>
                  ELSE IF r.err # ""
                  THEN /\ logs' = Append(logs, "unable to scan smart devices")
                       /\ pc' = "done"
                       /\ UNCHANGED <<devices, idx>>
                  ELSE /\ devices' = r.val
                       /\ idx' = 1
                       /\ pc' = AfterDevice(0, r.val)
                       /\ logs' = logs
    /\ UNCHANGED <<prog, isRoot, verOut, ch>>

CollectActiveNoGate ==
    /\ prog = "collector" /\ pc = "active"
    /\ \E ok \in BOOLEAN :
        LET d == devices[idx]
        IN /\ cmds' = Append(cmds, Cmd("active", idx, ok, FALSE))
           /\ ch' = Append(ch, Metric("smartmon_device_active",
                                      DiskType(d.Name, d.Type), boolToMetric(ok)))
           /\ pc' = "info" /\ idx' = idx
    /\ UNCHANGED <<prog, isRoot, verOut, devices, logs, raw, parsed>>

CollectActivePropagate ==
    /\ prog = "collector" /\ pc = "active"
    /\ \E ok \in BOOLEAN :
        LET d == devices[idx]
        IN /\ cmds' = Append(cmds, Cmd("active", idx, ok, FALSE))
           /\ IF ok
              THEN /\ ch' = Append(ch, Metric("smartmon_device_active",
                                              DiskType(d.Name, d.Type), 1))
                   /\ pc' = "info" /\ idx' = idx /\ logs' = logs
              ELSE /\ ch' = ch
                   /\ logs' = Append(logs, "unable to check device")
                   /\ pc' = "done" /\ idx' = idx
    /\ UNCHANGED <<prog, isRoot, verOut, devices, raw, parsed>>

\* active, _ := d.active() and the active measurement
CollectActive ==
    /\ prog = "collector" /\ pc = "active"
    /\ \E ok \in BOOLEAN :
        LET d == devices[idx]
        IN /\ cmds' = Append(cmds, Cmd("active", idx, ok, FALSE))
           /\ ch' = Append(ch, Metric("smartmon_device_active",
                                      DiskType(d.Name, d.Type), boolToMetric(ok)))
           /\ IF ok
              THEN pc' = "info" /\ idx' = idx
              ELSE pc' = AfterDevice(idx, devices) /\ idx' = idx + 1
    /\ UNCHANGED <<prog, isRoot, verOut, devices, logs, raw, parsed>>

\* CollectInfoMetrics(ch, d)
CollectInfo ==
    /\ prog = "collector" /\ pc = "info"
    /\ LET json == JSONCapable(verOut)
       IN \E run \in (IF json THEN PassInfoDocRuns ELSE PassInfoTextRuns) :
            LET r == CollectInfoMetrics(devices[idx], getDevInfo(json, run))
            IN /\ cmds' = cmds \o <<Cmd("version", 0, ~verOut.fail, FALSE),
                                    Cmd("info", idx, ~run.fail, json)>>
               /\ ch' = ch \o r.val
               /\ logs' = logs \o r.log
               /\ pc' = IF r.err = "panic" THEN "panic" ELSE "attrs"
    /\ UNCHANGED <<prog, isRoot, verOut, devices, idx, raw, parsed>>

\* CollectVendorAttributes(ch, d); its error is not looked at
CollectVendorAttributes ==
    /\ prog = "collector" /\ pc = "attrs"
    /\ LET dev == devices[idx]
       IN \/ /\ HasPrefix(dev.Type, "nvme")
             /\ \E run \in PassNvmeRuns :
                 LET r == CollectNvmeVendorAttributes(dev, run)
                 IN /\ cmds' = Append(cmds, Cmd("attr", idx, ~run.fail, FALSE))
                    /\ ch' = ch \o r.val
                    /\ logs' = logs \o r.log
                    /\ IF r.err = "panic"
                       THEN pc' = "panic" /\ idx' = idx
                       ELSE pc' = AfterDevice(idx, devices) /\ idx' = idx + 1
          \/ /\ ~HasPrefix(dev.Type, "nvme") /\ HasPrefix(dev.Type, "sat")
             /\ \E run \in PassSatRuns :
                 LET r == CollectSatVendorAttributes(dev, run)
                 IN /\ cmds' = Append(cmds, Cmd("attr", idx, ~run.fail, FALSE))
                    /\ ch' = ch \o r.val
                    /\ logs' = logs
                    /\ IF r.err = "panic"
                       THEN pc' = "panic" /\ idx' = idx
                       ELSE pc' = AfterDevice(idx, devices) /\ idx' = idx + 1
          \/ /\ ~HasPrefix(dev.Type, "nvme") /\ ~HasPrefix(dev.Type, "sat")
             /\ pc' = AfterDevice(idx, devices) /\ idx' = idx + 1
             /\ UNCHANGED <<cmds, ch, logs>>
    /\ UNCHANGED <<prog, isRoot, verOut, devices, raw, parsed>>

(***************************************************************************)
(* The stand-alone program (src/main.go).                                  *)
(***************************************************************************)
smartMonMinVersion == "6.6"

\* strconv.ParseFloat on a version string: <digits> or <digits>.<digits>
ParseFloat(v) ==
    LET parts == Split(v, ".")
    IN IF Len(parts) <= 2 /\ \A k \in DOMAIN parts : IsDigits(parts[k])
       THEN [err |-> "", int |-> DigitsVal(parts[1]),
             frac |-> IF Len(parts) = 2 THEN parts[2] ELSE ""]
       ELSE [err |-> "ParseFloat", int |-> 0, frac |-> ""]

RECURSIVE Pow10(_)
Pow10(n) == IF n = 0 THEN 1 ELSE 10 * Pow10(n - 1)

\* a < b on two parsed floats: the fractions compare as decimal fractions
FloatLT(a, b) ==
    LET n == IF Len(a.frac) > Len(b.frac) THEN Len(a.frac) ELSE Len(b.frac)
        fa == DigitsVal(a.frac) * Pow10(n - Len(a.frac))
        fb == DigitsVal(b.frac) * Pow10(n - Len(b.frac))
    IN a.int < b.int \/ (a.int = b.int /\ fa < fb)

\* smartCtrlCheckVersion(minVerString) given the answer to `smartctl -V`:
\* "" when the version is accepted, else the error ("panic" for a panic)
smartCtrlCheckVersion(minVerString, run) ==
    LET minVer == ParseFloat(minVerString)
        installedVerString == smartMonVersion(run)
        installedVer == ParseFloat(installedVerString.val)
    IN IF minVer.err # "" THEN "Unable to parse installed smartctl version"
       ELSE IF installedVerString.err # "" THEN "panic"
       ELSE IF installedVer.err # "" THEN "Unable to parse installed smartctl version"
       ELSE IF FloatLT(installedVer, minVer) THEN "Installed smartctl version is lower"
       ELSE ""

smartMonVersionMetric(version) ==
    Metric("smartmon_version",
           [k \in {"version", "foo"} |-> IF k = "version" THEN version ELSE "bar"], 1)

\* time.Now().Unix() during the pass
UnixNow == 1700000000

smartMonRunMetric(dev, devType) == Metric("smartctl_run", DiskType(dev, devType), UnixNow)

smartMonDeviceActive(dev, devType, ok) ==
    Metric("smartctl_run", DiskType(dev, devType), IF ok THEN 1 ELSE 0)

\* the loop of smartMonInfoMetrics: [smartInfo, available, enabled, healthy]
RECURSIVE mainInfoLoop(_, _)
mainInfoLoop(lines, st) ==
    IF lines = <<>> THEN st
    ELSE LET line == Head(lines)
             name == InfoName(line)
             val == InfoVal(line)
             st1 == [st EXCEPT !.smartInfo = Put(@, name, TrimSpace(val))]
         IN IF ~InfoMatches(line) THEN mainInfoLoop(Tail(lines), st)
            ELSE IF HasPrefix(name, "SMART support is")
            THEN IF HasPrefix(val, "Available")
                 THEN mainInfoLoop(Tail(lines), [st1 EXCEPT !.available = 1])
                 ELSE IF HasPrefix(val, "Enabled")
                 THEN mainInfoLoop(Tail(lines), [st1 EXCEPT !.enabled = 1])
                 ELSE mainInfoLoop(Tail(lines), st1)
            ELSE IF HasPrefix(name, "SMART Health Status")
            THEN IF HasPrefix(val, "OK")
                 THEN mainInfoLoop(Tail(lines), [st1 EXCEPT !.healthy = 1])
                 ELSE mainInfoLoop(Tail(lines), st1)
            ELSE IF HasPrefix(name, "SMART overall-health self-assessment test result")
            THEN IF HasPrefix(val, "Passed")
                 THEN mainInfoLoop(Tail(lines), [st1 EXCEPT !.healthy = 1])
                 ELSE mainInfoLoop(Tail(lines), st1)
            ELSE mainInfoLoop(Tail(lines), st1)

\* smartInfo[key] of a Go map: "" for a missing key
Lookup(map, key) == IF key \in DOMAIN map THEN map[key] ELSE ""

smartMonInfoLabels(labels, smartInfo) ==
    LET infoLabels ==
            [k \in {"vendor", "product", "revision", "lun_id", "model_family",
                    "device_model", "serial_number", "firmware_version"} |->
                CASE k = "vendor" -> Lookup(smartInfo, "Vendor")
                  [] k = "product" -> Lookup(smartInfo, "Product")
                  [] k = "revision" -> Lookup(smartInfo, "Revision")
                  [] k = "lun_id" -> Lookup(smartInfo, "Logical Unit id")
                  [] k = "model_family" -> Lookup(smartInfo, "Model Family")
                  [] k = "device_model" -> Lookup(smartInfo, "Device Model")
                  [] k = "serial_number" -> Lookup(smartInfo, "Serial Number")
                  [] k = "firmware_version" -> Lookup(smartInfo, "Firmware Version")]
    IN mergeMaps(infoLabels, labels)

smartMonInfoMetrics(dev, devType, run) ==
    IF run.fail THEN Emitted("panic", <<>>)
    ELSE LET st == mainInfoLoop(run.out,
                       [smartInfo |-> EmptyMap, available |-> 0, enabled |-> 0,
                        healthy |-> 0])
             commonLabels == DiskType(dev, devType)
             infoLabels == smartMonInfoLabels(commonLabels, st.smartInfo)
         IN Emitted("",
                <<NewMetric("smartmon_device_info", infoLabels, 1),
                  NewMetric("smartmon_device_smart_available", commonLabels, st.available),
                  NewMetric("smartmon_device_smart_enabled", commonLabels, st.enabled),
                  NewMetric("smartmon_device_smart_healthy", commonLabels, st.healthy)>>)

smartMonDeviceAttributes(device, devType, run) ==
    IF HasPrefix(devType, "sat")
    THEN smartMonDeviceSatAttributes(device, devType, run)
    ELSE Emitted("", <<NewMetric("smartmon_info", [k \in {"disk"} |-> device],
                                 "type is not sat, scsi or megaraid")>>)

\* the orders in which `range` may visit the entries of the device map
MapOrders(map) ==
    {[k \in DOMAIN order |-> Device(order[k], map[order[k]], "", "")] :
        order \in {o \in [1..Cardinality(DOMAIN map) -> DOMAIN map] :
                      \A i, j \in DOMAIN o : i # j => o[i] # o[j]}}

\* the root warning and must(smartCtrlAvailable(), ...)
MainStart ==
    /\ prog = "main" /\ pc = "start"
    /\ LET warned == IF isRoot THEN ch
                     ELSE Append(ch, NewInfoMetric("smartmon_current_user_warning",
                                                   "Not running as root"))
       IN \E found \in BOOLEAN :
            IF found
            THEN ch' = warned /\ pc' = "version"
            ELSE /\ ch' = Append(warned, NewInfoMetric("smartmon_collector_error",
                                        "Unable to locate smartctl in path"))
                 /\ pc' = "exit"
    /\ UNCHANGED <<prog, isRoot, verOut, devices, idx, cmds, logs, raw, parsed>>

\* must(smartCtrlCheckVersion(smartMonMinVersion), ...)
MainCheckVersion ==
    /\ prog = "main" /\ pc = "version"
    /\ LET err == smartCtrlCheckVersion(smartMonMinVersion, verOut)
       IN /\ cmds' = Append(cmds, Cmd("version", 0, ~verOut.fail, FALSE))
          /\ IF err = "panic" THEN pc' = "panic" /\ ch' = ch
             ELSE IF err # ""
             THEN /\ ch' = Append(ch, NewInfoMetric("smartmon_collector_error",
                                    "Failed to verify smartctl version:" \o err))
                  /\ pc' = "exit"
             ELSE pc' = "list" /\ ch' = ch
    /\ UNCHANGED <<prog, isRoot, verOut, devices, idx, logs, raw, parsed>>

\* printMetric(smartMonVersionMetric()) and smartMonDeviceList()
MainDeviceList ==
    /\ prog = "main" /\ pc = "list"
    /\ \E run \in PassScanTextRuns :
        LET r == smartMonDeviceList(run)
        IN /\ cmds' = cmds \o <<Cmd("version", 0, ~verOut.fail, FALSE),
                                Cmd("scan", 0, ~run.fail, FALSE)>>
           /\ ch' = Append(ch, smartMonVersionMetric(smartMonVersion(verOut).val))
           /\ raw' = [fn |-> "smartMonDeviceList", run |-> run]
           /\ parsed' = r
           /\ IF r.err = "panic"
              THEN pc' = "panic" /\ UNCHANGED <<devices, idx>>
              ELSE \E order \in MapOrders(r.val) :
                      /\ devices' = order
                      /\ idx' = 1
                      /\ pc' = AfterDevice(0, order)
    /\ UNCHANGED <<prog, isRoot, verOut, logs>>

\* the run measurement, smartMonDeviceActive and its measurement
MainActive ==
    /\ prog = "main" /\ pc = "active"
    /\ \E ok \in BOOLEAN :
        LET d == devices[idx]
            activeMetric == smartMonDeviceActive(d.Name, d.Type, ok)
        IN /\ cmds' = Append(cmds, Cmd("active", idx, ok, FALSE))
           /\ ch' = ch \o <<smartMonRunMetric(d.Name, d.Type), activeMetric>>
           /\ IF activeMetric.value = 1
              THEN pc' = "info" /\ idx' = idx
              ELSE pc' = AfterDevice(idx, devices) /\ idx' = idx + 1
    /\ UNCHANGED <<prog, isRoot, verOut, devices, logs, raw, parsed>>

\* printMetrics(smartMonInfoMetrics(dev, devType))
MainInfo ==
    /\ prog = "main" /\ pc = "info"
    /\ \E run \in PassInfoTextRuns :
        LET r == smartMonInfoMetrics(devices[idx].Name, devices[idx].Type, run)
        IN /\ cmds' = Append(cmds, Cmd("info", idx, ~run.fail, FALSE))
           /\ ch' = ch \o r.val
           /\ pc' = IF r.err = "panic" THEN "panic" ELSE "attrs"
    /\ UNCHANGED <<prog, isRoot, verOut, devices, idx, logs, raw, parsed>>

\* printMetrics(smartMonDeviceAttributes(dev, devType))
MainAttributes ==
    /\ prog = "main" /\ pc = "attrs"
    /\ LET d == devices[idx]
       IN \/ /\ HasPrefix(d.Type, "sat")
             /\ \E run \in PassSatRuns :
                 LET r == smartMonDeviceAttributes(d.Name, d.Type, run)
                 IN /\ cmds' = Append(cmds, Cmd("attr", idx, ~run.fail, FALSE))
                    /\ ch' = ch \o r.val
                    /\ IF r.err = "panic"
                       THEN pc' = "panic" /\ idx' = idx
                       ELSE pc' = AfterDevice(idx, devices) /\ idx' = idx + 1
          \/ /\ ~HasPrefix(d.Type, "sat")
             /\ ch' = ch \o smartMonDeviceAttributes(d.Name, d.Type, FailRun).val
             /\ pc' = AfterDevice(idx, devices) /\ idx' = idx + 1
             /\ cmds' = cmds
    /\ UNCHANGED <<prog, isRoot, verOut, devices, logs, raw, parsed>>

(***************************************************************************)
(* Spec: one collection pass of either program.                            *)
(***************************************************************************)
Init ==
    /\ prog \in {"collector", "main"}
    /\ pc = "start"
    /\ isRoot \in (IF prog = "main" THEN BOOLEAN ELSE {TRUE})
    /\ verOut \in PassVerRuns
    /\ devices = <<>>
    /\ idx = 0
    /\ ch = <<>>
    /\ cmds = <<>>
    /\ logs = <<>>
    /\ raw = NoInput
    /\ parsed = NotRun

Next ==
    \/ CollectVersion
    \/ CollectGetDeviceList
    \/ CollectActive
    \/ CollectInfo
    \/ CollectVendorAttributes
    \/ MainStart
    \/ MainCheckVersion
    \/ MainDeviceList
    \/ MainActive
    \/ MainInfo
    \/ MainAttributes

Spec == Init /\ [][Next]_vars

(***************************************************************************)
(* SpecInfo: one legacy info parse, line by line, then the measurements    *)
(* built from it.  The loops of Device.info and smartMonInfoMetrics fold   *)
(* the lines from an initial record, so the record after k lines is the    *)
(* loop applied to the first k lines.                                      *)
(***************************************************************************)
InfoLinePool ==
    {"", "=== START OF INFORMATION SECTION ===",
     "Device Model: ST1000",
     "Type: virtual",
     "SMART support is: Available - device has SMART capability.",
     "SMART support is: Enabled",
     "SMART support is: Unavailable - device lacks SMART capability.",
     "SMART Health Status: OK",
     "SMART Health Status: FAILED",
     "SMART overall-health self-assessment test result: PASSED",
     "SMART overall-health self-assessment test result: FAILED!"}

InfoTexts == SeqsUpTo(InfoLinePool, MaxInfoLines)

InfoDev == Device("/dev/sda", "sat", "/dev/sda", "ATA device")

InfoInputs ==
    {[fn |-> f, run |-> TextRun(t)] :
        f \in {"info", "smartMonInfoMetrics"}, t \in InfoTexts}
    \cup {[fn |-> f, run |-> FailRun] : f \in {"info", "smartMonInfoMetrics"}}

InfoStart == DeviceInfo(FALSE, FALSE, FALSE, EmptyMap)
MainInfoStart == [smartInfo |-> EmptyMap, available |-> 0, enabled |-> 0, healthy |-> 0]

InitInfo ==
    /\ prog = "info"
    /\ pc = "parse"
    /\ raw \in InfoInputs
    /\ parsed = [err |-> "", val |-> IF raw.fn = "info" THEN InfoStart ELSE MainInfoStart]
    /\ PassIdle

\* one turn of the loop of Device.info
InfoParseLine ==
    /\ prog = "info" /\ pc = "parse" /\ raw.fn = "info"
    /\ ~raw.run.fail /\ idx < Len(raw.run.out)
    /\ idx' = idx + 1
    /\ parsed' = InfoOk(infoLoop(SubSeq(raw.run.out, 1, idx + 1), InfoStart))
    /\ UNCHANGED <<prog, pc, raw, isRoot, verOut, devices, ch, cmds, logs>>

\* the end of Device.info and the rest of CollectInfoMetrics
ApplyCollectInfoMetrics ==
    /\ prog = "info" /\ pc = "parse" /\ raw.fn = "info"
    /\ raw.run.fail \/ idx = Len(raw.run.out)
    /\ LET o == CollectInfoMetrics(InfoDev, info(raw.run))
       IN /\ ch' = o.val
          /\ logs' = o.log
    /\ pc' = "done"
    /\ UNCHANGED <<prog, raw, parsed, isRoot, verOut, devices, idx, cmds>>

\* one turn of the loop of smartMonInfoMetrics
MainInfoParseLine ==
    /\ prog = "info" /\ pc = "parse" /\ raw.fn = "smartMonInfoMetrics"
    /\ ~raw.run.fail /\ idx < Len(raw.run.out)
    /\ idx' = idx + 1
    /\ parsed' = [err |-> "",
                  val |-> mainInfoLoop(SubSeq(raw.run.out, 1, idx + 1), MainInfoStart)]
    /\ UNCHANGED <<prog, pc, raw, isRoot, verOut, devices, ch, cmds, logs>>

\* the end of the loop and the measurements of smartMonInfoMetrics
ApplySmartMonInfoMetrics ==
    /\ prog = "info" /\ pc = "parse" /\ raw.fn = "smartMonInfoMetrics"
    /\ raw.run.fail \/ idx = Len(raw.run.out)
    /\ LET o == smartMonInfoMetrics(InfoDev.Name, InfoDev.Type, raw.run)
       IN /\ ch' = o.val
          /\ pc' = IF o.err = "panic" THEN "panic" ELSE "done"
    /\ UNCHANGED <<prog, raw, parsed, isRoot, verOut, devices, idx, cmds, logs>>

NextInfo ==
    \/ InfoParseLine
    \/ ApplyCollectInfoMetrics
    \/ MainInfoParseLine
    \/ ApplySmartMonInfoMetrics

SpecInfo == InitInfo /\ [][NextInfo]_vars

(***************************************************************************)
(* SpecVer: one version check applied to one answer of `smartctl -V`.      *)
(* JSONCapable and CheckSupportedVersion compare with the minimum of       *)
(* package smart, smartCtrlCheckVersion with the minimum it is given.      *)
(***************************************************************************)
smartMonMinVersionSmart == <<6, 6, 0>>

\* CheckSupportedVersion: "" when the version is accepted, else the error
CheckSupportedVersion(run) ==
    LET foundVer == Version(run)
    IN IF foundVer.err # "" THEN "Unable to determine installed smartctl version"
       ELSE LET installedVer == Parse(foundVer.val)
            IN IF installedVer.err # ""
               THEN "Unable to parse installed smartctl version"
               ELSE IF VersionLT(installedVer.val, smartMonMinVersionSmart)
               THEN "Installed smartctl version is lower"
               ELSE ""

VerStrings ==
    {ToString(a) \o "." \o ToString(b) : a \in 5..MaxVerMajor, b \in 0..MaxVerMinor}

VerRun(v) == TextRun(<<<<"smartctl", v, "2017-11-05", "r4594">>>>)

VerInputs ==
    {[fn |-> "JSONCapable", run |-> VerRun(v), min |-> "7.0"] : v \in VerStrings}
    \cup {[fn |-> "CheckSupportedVersion", run |-> VerRun(v), min |-> "6.6"] :
            v \in VerStrings}
    \cup {[fn |-> "smartCtrlCheckVersion", run |-> VerRun(v), min |-> w] :
            v \in VerStrings, w \in VerStrings}

InitVer ==
    /\ prog = "ver"
    /\ pc = "input"
    /\ raw \in VerInputs
    /\ parsed = NotRun
    /\ PassIdle

ApplyJSONCapable ==
    /\ prog = "ver" /\ pc = "input" /\ raw.fn = "JSONCapable"
    /\ parsed' = IF JSONCapable(raw.run) THEN Ok(<<>>) ELSE Err("not capable")
    /\ pc' = "checked"
    /\ UNCHANGED <<prog, raw, passVars>>

ApplyCheckSupportedVersion ==
    /\ prog = "ver" /\ pc = "input" /\ raw.fn = "CheckSupportedVersion"
    /\ parsed' = [err |-> CheckSupportedVersion(raw.run), val |-> <<>>]
    /\ pc' = "checked"
    /\ UNCHANGED <<prog, raw, passVars>>

ApplySmartCtrlCheckVersion ==
    /\ prog = "ver" /\ pc = "input" /\ raw.fn = "smartCtrlCheckVersion"
    /\ parsed' = [err |-> smartCtrlCheckVersion(raw.min, raw.run), val |-> <<>>]
    /\ pc' = "checked"
    /\ UNCHANGED <<prog, raw, passVars>>

NextVer == ApplyJSONCapable \/ ApplyCheckSupportedVersion \/ ApplySmartCtrlCheckVersion

SpecVer == InitVer /\ [][NextVer]_vars

(***************************************************************************)
(* Properties of the enumerators (SpecScan).                               *)
(***************************************************************************)
Matches(line) == FindSubmatch(line) # <<>>
HasBadLine(lines) == \E k \in DOMAIN lines : ~IsBlank(lines[k]) /\ ~Matches(lines[k])
NonBlank(lines) == SelectSeq(lines, LAMBDA l : ~IsBlank(l))
NoDevices(r) == DOMAIN r.val = {}
Scanned(f) == prog = "scan" /\ pc = "parsed" /\ raw.fn = f /\ ~raw.run.fail

\* C7: legacy enumeration is all-or-nothing: a scan output with at least one
\* non-blank line that does not match the device pattern makes the
\* enumerator (scanDevices, smartMonDeviceList) fail with the malformed-line
\* error and return no devices.
C7_AllOrNothing ==
    \A f \in {"scanDevices", "smartMonDeviceList"} :
        (Scanned(f) /\ HasBadLine(raw.run.out))
            => (parsed.err = "Unable to parse device line" /\ NoDevices(parsed))

\* scanDevices alone is all-or-nothing (the enumerator of package smart).
C7_ScanDevicesAllOrNothing ==
    (Scanned("scanDevices") /\ HasBadLine(raw.run.out))
        => (parsed.err = "Unable to parse device line" /\ NoDevices(parsed))

\* C8: on a scan output of well-formed and blank lines only, scanDevices
\* succeeds and returns one Device per well-formed line, in order, whose
\* Name, Type, InfoName and Protocol are the line's captured groups 1 to 4.
C8_OneDevicePerLine ==
    (Scanned("scanDevices") /\ ~HasBadLine(raw.run.out))
        => LET good == NonBlank(raw.run.out)
           IN /\ parsed.err = ""
              /\ Len(parsed.val) = Len(good)
              /\ \A k \in DOMAIN good :
                    LET g == FindSubmatch(good[k])
                    IN /\ parsed.val[k].Name = g[1]
                       /\ parsed.val[k].Type = g[2]
                       /\ parsed.val[k].InfoName = g[3]
                       /\ parsed.val[k].Protocol = g[4]

C8_Witness ==
    /\ Scanned("scanDevices")
    /\ raw.run.out = <<LineTwice, LineSda>>
    /\ Len(parsed.val) = 2
    /\ parsed.val[1] = Device("/dev/sda -d sat", "scsi", "/dev/sda, ATA", "device")
    /\ parsed.val[2] = Device("/dev/sda", "sat", "/dev/sda", "ATA device")

\* C9: scanDevicesJSON returns an error and no devices when the document has
\* no top-level "devices" key (the missing-key error when it is an object)
\* and when the output is not valid JSON; it returns devices only when the
\* key is present and its value is an array whose elements deserialize.
HasDevicesKey(doc) == doc.t = "obj" /\ "devices" \in DOMAIN doc.o
C9_StructuredEnumerationErrors ==
    (prog = "scan" /\ pc = "parsed" /\ raw.fn = "scanDevicesJSON")
        => LET doc == raw.run.doc
           IN /\ (~raw.run.fail /\ ~HasDevicesKey(doc))
                    => parsed.err \notin {"", "panic"} /\ NoDevices(parsed)
              /\ (~raw.run.fail /\ doc.t \in {"obj", "null"} /\ ~HasDevicesKey(doc))
                    => parsed.err = "unable to find 'devices' entry in JSON output"
              /\ (~raw.run.fail /\ doc.t = "invalid")
                    => parsed.err = "json" /\ NoDevices(parsed)
              /\ parsed.err = ""
                    => /\ ~raw.run.fail
                       /\ HasDevicesKey(doc)
                       /\ doc.o["devices"].t = "arr"
                       /\ \A k \in DOMAIN doc.o["devices"].a :
                             ElemOk(doc.o["devices"].a[k])
                       /\ Len(parsed.val) = Len(doc.o["devices"].a)

C9_Witness ==
    /\ prog = "scan" /\ pc = "parsed" /\ raw.fn = "scanDevicesJSON"
    /\ raw.run.doc = JObj([k \in {"smartctl"} |-> JMeta])
    /\ parsed.err = "unable to find 'devices' entry in JSON output"

(***************************************************************************)
(* Properties of the attribute parsers (SpecAttr).                         *)
(***************************************************************************)
RowValid(fields) ==
    IsNum(fields[4]) /\ IsNum(fields[5]) /\ IsNum(fields[6]) /\ IsNum(fields[10])

RowMetrics(dev, fields) ==
    <<SatMetric(dev, fields, "_value", 4), SatMetric(dev, fields, "_worst", 5),
      SatMetric(dev, fields, "_threshold", 6), SatMetric(dev, fields, "_raw_value", 10)>>

\* what independent rows emit: four measurements for each row of at least
\* ten tokens whose four numeric fields parse, nothing for the others
RECURSIVE IndependentRows(_, _)
IndependentRows(dev, lines) ==
    IF lines = <<>> THEN <<>>
    ELSE (IF Len(Head(lines)) >= 10 /\ RowValid(Head(lines))
          THEN RowMetrics(dev, Head(lines)) ELSE <<>>)
         \o IndependentRows(dev, Tail(lines))

\* C5: the rows of a SAT attribute table are normalized independently: a row
\* with a numeric field (tokens 3, 4, 5, 9) that does not parse emits none of
\* its four measurements, and every other row with four valid fields, before
\* or after it, emits all four.
C5_RowsIndependent ==
    (prog = "attr" /\ pc = "parsed" /\ raw.fn = "CollectSatVendorAttributes"
        /\ ~raw.run.fail /\ raw.run.out # <<>>)
        => parsed.val = IndependentRows(AttrDev, DropFirstByte(raw.run.out))

(***************************************************************************)
(* Properties of a collection pass (Spec).                                 *)
(***************************************************************************)
DeviceCmds == {"active", "info", "attr"}

\* C1: an info or attribute command is issued against a device only after
\* that device's active check of the same pass returned true; after an
\* active check that returned false no info or attribute command follows
\* for that device.
C1_ActiveGuard ==
    \A k \in DOMAIN cmds :
        /\ cmds[k].kind \in {"info", "attr"}
              => \E j \in 1..(k - 1) :
                    /\ cmds[j].kind = "active"
                    /\ cmds[j].dev = cmds[k].dev
                    /\ cmds[j].ok
        /\ (cmds[k].kind = "active" /\ ~cmds[k].ok)
              => \A j \in (k + 1)..Len(cmds) :
                    ~(cmds[j].kind \in {"info", "attr"} /\ cmds[j].dev = cmds[k].dev)

\* a pass of two devices: the first asleep, the second read
C1_Witness ==
    /\ Len(cmds) >= 2
    /\ \E k \in DOMAIN cmds : cmds[k].kind = "active" /\ cmds[k].dev = 1 /\ ~cmds[k].ok
    /\ cmds[Len(cmds)].kind = "attr" /\ cmds[Len(cmds)].dev = 2
    /\ cmds[Len(cmds) - 1].kind = "info"

IsInfoMeasurement(m) == DOMAIN m.labels = {"info"}

VersionToken == Version(verOut).val

\* C2: when the version query reports "not-a-number" the pass aborts with a
\* version error: no scan, active, info or attribute command is issued, and
\* the output of the aborted pass is exactly one informational measurement
\* (the warning about not running as root is not counted).
C2_UnparsableVersionAborts ==
    LET out == SelectSeq(ch, LAMBDA m : m.name # "smartmon_current_user_warning")
    IN (prog \in {"collector", "main"} /\ VersionToken = "not-a-number")
        => /\ \A k \in DOMAIN cmds : cmds[k].kind = "version"
           /\ pc \in {"done", "exit"} => (Len(out) = 1 /\ IsInfoMeasurement(out[1]))

\* the enumeration of this pass ended with an error (not a panic)
EnumerationFailed ==
    /\ raw.fn \in {"scanDevices", "scanDevicesJSON"}
    /\ parsed.err \notin {"", "panic", "not-run"}

\* C3: when enumeration fails with a hard error (scan command failure,
\* malformed scan output, missing devices key) the pass aborts, issues no
\* per-device command, and its whole output is exactly one informational
\* measurement: no version measurement is part of it.
C3_EnumerationErrorSingleMeasurement ==
    (prog = "collector" /\ EnumerationFailed)
        => /\ pc = "done"
           /\ \A k \in DOMAIN cmds : cmds[k].kind \notin DeviceCmds
           /\ Len(ch) = 1
           /\ IsInfoMeasurement(ch[1])

\* the step reads the info of the current device and fails
InfoFails ==
    /\ pc = "info"
    /\ \/ prog = "collector" /\ Len(logs') > Len(logs)
       \/ prog = "main" /\ pc' = "panic"

\* C4: when the info command or the info parse fails for an active device
\* the pass goes on with the next device, and the failing device yields
\* nothing more than one informational measurement carrying the error.
C4_InfoFailureIsolated ==
    [][InfoFails =>
          /\ pc' = AfterDevice(idx, devices)
          /\ idx' = idx + 1
          /\ Len(ch') = Len(ch) + 1
          /\ IsInfoMeasurement(ch'[Len(ch')])]_vars

\* C6: no two measurements emitted in one pass have the same name and the
\* same labels.
C6_UniqueMeasurements ==
    \A i, j \in DOMAIN ch :
        i < j => ~(ch[i].name = ch[j].name /\ ch[i].labels = ch[j].labels)

\* the position in ch of the i-th active measurement of the collector, 0 if
\* there is none
ActivePos(i) ==
    LET S == {p \in DOMAIN ch :
                /\ ch[p].name = "smartmon_device_active"
                /\ Cardinality({q \in 1..p : ch[q].name = "smartmon_device_active"}) = i}
    IN IF S = {} THEN 0 ELSE CHOOSE p \in S : TRUE

\* C10: when the active-state query of a device fails, the device counts as
\* inactive: the pass is not aborted, the only measurement emitted for the
\* device is the inactive marker (active measurement, value 0), no further
\* command names the device, and the pass goes on with the next device.
C10_FailedActiveCheckMeansInactive ==
    prog = "collector" =>
        \A k \in DOMAIN cmds :
            (cmds[k].kind = "active" /\ ~cmds[k].ok) =>
                LET i == cmds[k].dev
                    p == ActivePos(i)
                IN /\ p > 0
                   /\ ch[p] = Metric("smartmon_device_active",
                                     DiskType(devices[i].Name, devices[i].Type), 0)
                   /\ p = Len(ch) \/ ch[p + 1].name = "smartmon_device_active"
                   /\ \A j \in (k + 1)..Len(cmds) : cmds[j].dev # i
                   /\ k = Len(cmds) =>
                        (pc = AfterDevice(i, devices) /\ idx = i + 1)
                   /\ (pc = "done" /\ k < Len(cmds)) => idx = Len(devices) + 1

\* a pass over two devices: the first fails its active check, the second is
\* read to the end
C10_Witness ==
    /\ prog = "collector" /\ pc = "done" /\ Len(devices) = 2
    /\ \E k \in DOMAIN cmds : cmds[k].kind = "active" /\ cmds[k].dev = 1 /\ ~cmds[k].ok
    /\ \E k \in DOMAIN cmds : cmds[k].kind = "attr" /\ cmds[k].dev = 2
    /\ ch[2].value = 0 /\ ch[3].name = "smartmon_device_active" /\ ch[3].value = 1

(***************************************************************************)
(* Properties of the info parse (SpecInfo).                                *)
(***************************************************************************)
\* C11: in the device_info measurement of a device the labels disk and type
\* equal the device's name and type: no key of the attribute map, not even
\* one that sanitizes to "disk" or "type", overrides them in the merge.
C11_IdentityLabelsKept ==
    (prog = "info" /\ pc = "done") =>
        \A k \in DOMAIN ch :
            ch[k].name = "smartmon_device_info" =>
                /\ ch[k].labels["disk"] = InfoDev.Name
                /\ ch[k].labels["type"] = InfoDev.Type

\* available, enabled, healthy of the parse in progress
InfoFlags(p) ==
    IF raw.fn = "info"
    THEN <<p.val.Available, p.val.Enabled, p.val.Healthy>>
    ELSE <<p.val.available = 1, p.val.enabled = 1, p.val.healthy = 1>>

IsHealthLine(line) ==
    /\ InfoMatches(line)
    /\ \/ InfoName(line) = "SMART Health Status" /\ TrimSpace(InfoVal(line)) = "OK"
       \/ /\ InfoName(line) = "SMART overall-health self-assessment test result"
          /\ TrimSpace(InfoVal(line)) = "PASSED"

\* C16: during one legacy info parse each of available, enabled and healthy
\* only ever goes from false to true; and a SMART Health Status line valued
\* OK, or a SMART overall-health self-assessment test result line valued
\* PASSED, leaves all three true at the end of the parse.
C16_FlagsMonotoneAndHealthImpliesAll ==
    /\ [][prog = "info" =>
            \A k \in 1..3 : InfoFlags(parsed)[k] => InfoFlags(parsed')[k]]_vars
    /\ []((/\ prog = "info" /\ pc = "done"
           /\ \E k \in DOMAIN raw.run.out : IsHealthLine(raw.run.out[k]))
            => InfoFlags(parsed) = <<TRUE, TRUE, TRUE>>)

(***************************************************************************)
(* Properties of the attribute parsers, continued (SpecAttr).              *)
(***************************************************************************)
\* the rows of an attribute table: the lines after the tool's banner line
TableRows == Tail(raw.run.out)
KeptRows == SelectSeq(TableRows, LAMBDA l : Len(l) >= 10)
ValueTokens == <<4, 5, 6, 10>>

\* C12: for an attribute table a line of exactly 9 tokens emits nothing, a
\* line of 10 tokens is kept, and each kept row emits its _value, _worst,
\* _threshold and _raw_value measurements carrying the row's tokens at
\* 0-indexed positions 3, 4, 5 and 9.
C12_TokenPositions ==
    (/\ prog = "attr" /\ pc = "parsed" /\ ~raw.run.fail
     /\ raw.run.out # <<>> /\ Head(raw.run.out) = RowTitle)
        => /\ Len(parsed.val) = 4 * Len(KeptRows)
           /\ \A r \in DOMAIN KeptRows : \A j \in 1..4 :
                LET tok == KeptRows[r][ValueTokens[j]]
                IN IsNum(tok) => parsed.val[4 * (r - 1) + j].value = NumVal(tok)

(***************************************************************************)
(* Properties of the version checks (SpecVer).                             *)
(***************************************************************************)
\* the components a, b of a version string a.b
VerComponents(v) ==
    LET parts == Split(v, ".") IN <<DigitsVal(parts[1]), DigitsVal(parts[2])>>

\* C13: for version strings a.b and c.d the version check accepts a.b
\* against the minimum c.d exactly when a > c, or a = c and b >= d: the
\* comparison is numeric in each component.
C13_ComponentWiseComparison ==
    (prog = "ver" /\ pc = "checked") =>
        LET v == VerComponents(raw.run.out[1][2])
            w == VerComponents(raw.min)
        IN (parsed.err = "") <=> (v[1] > w[1] \/ (v[1] = w[1] /\ v[2] >= w[2]))

(***************************************************************************)
(* Properties of a collection pass, continued (Spec).                      *)
(***************************************************************************)
\* the step is the Collector's version query and the query fails
VersionQueryFails ==
    /\ prog = "collector" /\ pc = "start"
    /\ Version(verOut).err \notin {"", "panic"}

\* the step is the attribute step of a device whose type is neither nvme
\* nor sat
UnrecognizedType ==
    /\ prog = "collector" /\ pc = "attrs"
    /\ ~HasPrefix(devices[idx].Type, "nvme") /\ ~HasPrefix(devices[idx].Type, "sat")

\* the step runs the attribute command and the command fails
AttributeCommandFails ==
    /\ prog = "collector" /\ pc = "attrs" /\ pc' # "panic"
    /\ Len(cmds') = Len(cmds) + 1
    /\ ~cmds'[Len(cmds')].ok

\* the step emits what CollectSatVendorAttributes sent before it returned
\* the error of a non-numeric field
NonNumericField ==
    /\ prog = "collector" /\ pc = "attrs" /\ pc' # "panic"
    /\ ~HasPrefix(devices[idx].Type, "nvme") /\ HasPrefix(devices[idx].Type, "sat")
    /\ \E run \in PassSatRuns :
        LET r == CollectSatVendorAttributes(devices[idx], run)
        IN r.err = "ParseFloat" /\ ch' = ch \o r.val

\* the step is the info step of a device and emits nothing
InfoParseFails ==
    /\ prog = "collector" /\ pc = "info" /\ pc' # "panic"
    /\ ch' = ch

\* C14: every error that changes the output of the pass (failed version
\* query, unrecognized device type, failed attribute command, non-numeric
\* attribute field, failed info parse) leaves at least one informational
\* measurement or one log record.
C14_NoErrorSilentlyDropped ==
    [][(\/ VersionQueryFails
        \/ UnrecognizedType
        \/ AttributeCommandFails
        \/ NonNumericField
        \/ InfoParseFails)
        => \/ Len(logs') > Len(logs)
           \/ /\ Len(ch') > Len(ch)
              /\ IsInfoMeasurement(ch'[Len(ch')])]_vars

SdaDev == Device("/dev/sda", "sat", "/dev/sda", "ATA device")

\* an attribute output of the banner and two rows whose four value fields
\* are numeric
TwoValidRows(run) ==
    /\ ~run.fail /\ Len(run.out) = 3 /\ Head(run.out) = RowTitle
    /\ \A k \in 2..3 :
        /\ Len(run.out[k]) >= 10
        /\ \A t \in {4, 5, 6, 10} : IsNum(run.out[k][t])

\* the info output of the device held the line SMART Health Status: OK
HealthStatusOKReported ==
    \E k \in DOMAIN ch :
        /\ ch[k].name = "smartmon_device_info"
        /\ "smart_health_status" \in DOMAIN ch[k].labels
        /\ ch[k].labels["smart_health_status"] = "OK"

\* the attribute step that ends scenario A: legacy mode with version 6.6,
\* one ATA device /dev/sda found active, its info read with health status
\* OK, its attribute output of two valid rows read in this step
ScenarioA ==
    /\ prog = "collector" /\ pc = "attrs"
    /\ VersionToken = "6.6" /\ ~JSONCapable(verOut)
    /\ devices = <<SdaDev>>
    /\ HealthStatusOKReported
    /\ \E run \in PassSatRuns :
        /\ TwoValidRows(run)
        /\ ch' = ch \o CollectSatVendorAttributes(SdaDev, run).val

CountOf(ms, P(_)) == Cardinality({k \in DOMAIN ms : P(ms[k])})

InfoBooleans ==
    {"smartmon_device_smart_available", "smartmon_device_smart_enabled",
     "smartmon_device_smart_healthy"}

VersionQueries == {k \in DOMAIN cmds : cmds[k].kind = "version"}

\* C17: in one pass the version query is invoked exactly once, before the
\* enumeration, whatever the number of devices, and the format capability
\* decided from it is the one used for the enumeration and for every info
\* parse of the pass.
C17_VersionQueriedOnce ==
    prog = "collector" =>
        /\ Cardinality(VersionQueries) <= 1
        /\ pc # "start" => VersionQueries = {1}
        /\ \A k \in DOMAIN cmds :
             cmds[k].kind \in {"scan", "info"} => cmds[k].json = JSONCapable(verOut)

\* C18: whatever the tool prints (an empty output, an output shorter than
\* the skipped preamble, a failed attribute command, a version line of
\* fewer than two tokens) no parser step crashes: the pass is never left by
\* a panic, and a pass that ended after a successful enumeration has
\* processed every enumerated device.
C18_NoParserCrash ==
    prog = "collector" =>
        /\ pc # "panic"
        /\ (pc = "done" /\ raw.fn \in {"scanDevices", "scanDevicesJSON"} /\ parsed.err = "")
              => idx = Len(devices) + 1

====
